---- MODULE Spec2Model ----
(***************************************************************************)
(* Model of the QuickChart MCP server (src/unnamed/part_000): the chart    *)
(* configuration normalizer generateChartConfig, the URL builder           *)
(* generateChartUrl and the CallToolRequestSchema handler with its two     *)
(* tools, generate_chart and download_chart.                               *)
(*                                                                         *)
(* JavaScript values are tagged records, so that values of different       *)
(* JavaScript types can be compared.  An object is a function from the     *)
(* set of its own keys to values; reading a key it does not have yields    *)
(* undefined.  Requests arrive as JSON, so the inputs hold no undefined    *)
(* and no function; the normalizer itself creates both.                    *)
(***************************************************************************)
EXTENDS Integers, Sequences, FiniteSets, TLC

VARIABLES req, files

vars == <<req, files>>

(***************************************************************************)
(* Bounds                                                                  *)
(***************************************************************************)
NumReq == 2
MaxDatasets == 2
MaxClock == 2

(***************************************************************************)
(* JavaScript values                                                       *)
(***************************************************************************)
Undef == [t |-> "undefined"]
Null == [t |-> "null"]
Bool(b) == [t |-> "boolean", b |-> b]
Num(n) == [t |-> "number", n |-> n]
Str(s) == [t |-> "string", s |-> s]
Arr(a) == [t |-> "array", a |-> a]
Obj(o) == [t |-> "object", o |-> o]
Fn(f) == [t |-> "function", f |-> f]

EmptyObject == [k \in {} |-> Undef]

\* !v
Falsy(v) ==
  \/ v.t \in {"undefined", "null"}
  \/ v.t = "boolean" /\ ~v.b
  \/ v.t = "number" /\ v.n = 0
  \/ v.t = "string" /\ v.s = ""

Truthy(v) == ~Falsy(v)

\* v.k, where v is not null or undefined
Get(v, k) == IF v.t = "object" /\ k \in DOMAIN v.o THEN v.o[k] ELSE Undef

\* v?.k
OptGet(v, k) == IF v.t \in {"undefined", "null"} THEN Undef ELSE Get(v, k)

\* v[i], with the index counted from 0 as in the source
At(v, i) == IF v.t = "array" /\ i + 1 <= Len(v.a) THEN v.a[i + 1] ELSE Undef

\* v?.[i]
OptAt(v, i) == IF v.t \in {"undefined", "null"} THEN Undef ELSE At(v, i)

\* Array.isArray(v)
IsArray(v) == v.t = "array"

\* typeof v === 'object'
TypeofObject(v) == v.t \in {"object", "array", "null"}

\* the own enumerable keys that {...v} copies
SpreadOf(v) == IF v.t = "object" THEN v.o ELSE EmptyObject

\* {...a, ...b} on the key maps a and b
Spread(a, b) ==
  [k \in DOMAIN a \cup DOMAIN b |-> IF k \in DOMAIN b THEN b[k] ELSE a[k]]

\* a || b
OrElse(a, b) == IF Truthy(a) THEN a ELSE b

(***************************************************************************)
(* Failures                                                                *)
(***************************************************************************)
McpError(code, message) == [code |-> code, message |-> message]

Throw(e) == [ok |-> FALSE, val |-> e]
Return(v) == [ok |-> TRUE, val |-> v]

RECURSIVE Join(_, _)
\* Array.prototype.join on a sequence of strings
Join(s, sep) ==
  IF s = <<>> THEN ""
  ELSE IF Len(s) = 1 THEN s[1]
  ELSE s[1] \o sep \o Join(Tail(s), sep)

(***************************************************************************)
(* Config normalizer                                                       *)
(***************************************************************************)
QUICKCHART_BASE_URL == "https://quickchart.io/chart"

\* the list with its last kind forgotten
validTypes_NoSpeedometer ==
  <<"bar", "line", "pie", "doughnut", "radar",
    "polarArea", "scatter", "bubble", "radialGauge">>

validTypes ==
  <<"bar", "line", "pie", "doughnut", "radar",
    "polarArea", "scatter", "bubble", "radialGauge", "speedometer">>

\* validTypes.includes(type)
Includes(types, type) ==
  type.t = "string" /\ \E i \in 1..Len(types) : types[i] = type.s

\* the check with the throw forgotten
validateChartType_Unchecked(type) == Return(Undef)

validateChartType(type) ==
  IF ~Includes(validTypes, type)
  THEN Throw(McpError("InvalidParams",
         "Invalid chart type. Must be one of: " \o Join(validTypes, ", ")))
  ELSE Return(Undef)

\* the callback of datasets.map, for a dataset that passed its check
CanonicalDataset(dataset) ==
  Obj(Spread(
    [label |-> OrElse(Get(dataset, "label"), Str("")),
     data |-> Get(dataset, "data"),
     backgroundColor |-> Get(dataset, "backgroundColor"),
     borderColor |-> Get(dataset, "borderColor")],
    SpreadOf(OrElse(Get(dataset, "additionalConfig"), Obj(EmptyObject)))))

\* the check at the head of the callback of datasets.map
DatasetLacksData(dataset) ==
  Falsy(dataset) \/ Falsy(Get(dataset, "data"))

\* options: {...options, ...(title && {title: {display: true, text: title}})}
BuildOptions(options, title) ==
  Obj(Spread(
    SpreadOf(options),
    IF Truthy(title)
    THEN [title |-> Obj([display |-> Bool(TRUE), text |-> title])]
    ELSE EmptyObject))

\* the formatter (value: number) => value
Formatter == Fn("value => value")

\* config.options = {...config.options, plugins: {datalabels: {...}}}
GaugeOptions(options) ==
  Obj(Spread(
    SpreadOf(options),
    [plugins |-> Obj([datalabels |->
       Obj([display |-> Bool(TRUE), formatter |-> Formatter])])]))

\* the check written as datasets?.[0]?.data?.[0] === undefined
GaugeValueMissing_OnlyUndefined(datasets) ==
  OptAt(OptGet(OptAt(datasets, 0), "data"), 0) = Undef

\* !datasets?.[0]?.data?.[0]
GaugeValueMissing(datasets) ==
  Falsy(OptAt(OptGet(OptAt(datasets, 0), "data"), 0))

\* the check applied to datasets[0] alone
BadPoints_FirstOnly(datasets) ==
  {i \in 1..Len(datasets.a) : i = 1 /\ ~IsArray(At(Get(datasets.a[i], "data"), 0))}

\* the datasets whose check in datasets.forEach throws
BadPoints(datasets) ==
  {i \in 1..Len(datasets.a) : ~IsArray(At(Get(datasets.a[i], "data"), 0))}

\* the switch on type that ends generateChartConfig
PostProcess(type, datasets, config) ==
  IF type.s \in {"radialGauge", "speedometer"}
  THEN IF GaugeValueMissing(datasets)
       THEN Throw(McpError("InvalidParams",
              type.s \o " requires a single numeric value"))
       ELSE Return(Obj(Spread(config.o,
              [options |-> GaugeOptions(Get(config, "options"))])))
  ELSE IF type.s \in {"scatter", "bubble"}
  THEN IF BadPoints(datasets) # {}
       THEN Throw(McpError("InvalidParams",
              type.s \o " requires data points in [x, y"
                \o (IF type.s = "bubble" THEN ", r" ELSE "") \o "] format"))
       ELSE Return(config)
  ELSE Return(config)

\* the object literal assigned to config, for datasets that all have data
BuildConfig(type, labels, datasets, title, options) ==
  Obj([type |-> type,
       data |-> Obj([labels |-> OrElse(labels, Arr(<<>>)),
                     datasets |-> Arr([i \in 1..Len(datasets.a) |->
                                        CanonicalDataset(datasets.a[i])])]),
       options |-> BuildOptions(options, title)])

\* the gates with the type validated before the datasets are looked at
generateChartConfig_EnumFirst(args) ==
  IF Falsy(args)
  THEN Throw(McpError("InvalidParams",
         "No arguments provided to generateChartConfig"))
  ELSE IF Falsy(Get(args, "type"))
  THEN Throw(McpError("InvalidParams", "Chart type is required"))
  ELSE IF ~validateChartType(Get(args, "type")).ok
  THEN validateChartType(Get(args, "type"))
  ELSE IF Falsy(Get(args, "datasets")) \/ ~IsArray(Get(args, "datasets"))
  THEN Throw(McpError("InvalidParams", "Datasets must be a non-empty array"))
  ELSE IF \E i \in 1..Len(Get(args, "datasets").a) :
            DatasetLacksData(Get(args, "datasets").a[i])
  THEN Throw(McpError("InvalidParams",
         "Each dataset must have a data property"))
  ELSE PostProcess(Get(args, "type"), Get(args, "datasets"),
         BuildConfig(Get(args, "type"), Get(args, "labels"),
                     Get(args, "datasets"), Get(args, "title"),
                     IF Get(args, "options") = Undef
                     THEN Obj(EmptyObject) ELSE Get(args, "options")))

generateChartConfig(args) ==
  IF Falsy(args)
  THEN Throw(McpError("InvalidParams",
         "No arguments provided to generateChartConfig"))
  ELSE IF Falsy(Get(args, "type"))
  THEN Throw(McpError("InvalidParams", "Chart type is required"))
  ELSE IF Falsy(Get(args, "datasets")) \/ ~IsArray(Get(args, "datasets"))
  THEN Throw(McpError("InvalidParams", "Datasets must be a non-empty array"))
  ELSE LET type == Get(args, "type")
           labels == Get(args, "labels")
           datasets == Get(args, "datasets")
           title == Get(args, "title")
           options == IF Get(args, "options") = Undef
                      THEN Obj(EmptyObject) ELSE Get(args, "options")
       IN IF ~validateChartType(type).ok
          THEN validateChartType(type)
          ELSE IF \E i \in 1..Len(datasets.a) : DatasetLacksData(datasets.a[i])
          THEN Throw(McpError("InvalidParams",
                 "Each dataset must have a data property"))
          ELSE PostProcess(type, datasets,
                 BuildConfig(type, labels, datasets, title, options))

(***************************************************************************)
(* URL builder.  A text is the sequence of its lexemes: the punctuation    *)
(* of JSON, the quote, the content of a string, the digits of a number.    *)
(***************************************************************************)
RECURSIVE SeqOfSet(_)
\* the keys of an object, one after the other
SeqOfSet(S) ==
  IF S = {} THEN <<>>
  ELSE LET k == CHOOSE x \in S : TRUE IN <<k>> \o SeqOfSet(S \ {k})

\* JSON.stringify leaves out a member whose value is undefined or a function
Serializable(v) == v.t \notin {"undefined", "function"}

RECURSIVE StringifyValue(_), StringifyElements(_), StringifyMembers(_, _)
StringifyValue(v) ==
  CASE v.t = "null" -> <<"null">>
    [] v.t = "boolean" -> IF v.b THEN <<"true">> ELSE <<"false">>
    [] v.t = "number" -> <<ToString(v.n)>>
    [] v.t = "string" -> <<"\"", v.s, "\"">>
    [] v.t = "array" -> <<"[">> \o StringifyElements(v.a) \o <<"]">>
    [] v.t = "object" ->
         <<"{">> \o StringifyMembers(v.o,
                      SeqOfSet({k \in DOMAIN v.o : Serializable(v.o[k])}))
                 \o <<"}">>
    [] OTHER -> <<"null">>

\* in an array, undefined and functions are written as null
StringifyElements(a) ==
  IF a = <<>> THEN <<>>
  ELSE StringifyValue(a[1])
         \o (IF Len(a) = 1 THEN <<>> ELSE <<",">> \o StringifyElements(Tail(a)))

StringifyMembers(o, keys) ==
  IF keys = <<>> THEN <<>>
  ELSE <<"\"", keys[1], "\"", ":">> \o StringifyValue(o[keys[1]])
         \o (IF Len(keys) = 1 THEN <<>>
             ELSE <<",">> \o StringifyMembers(o, Tail(keys)))

\* JSON.stringify(config), config an object
JSONstringify(v) == StringifyValue(v)

\* the characters encodeURIComponent escapes, among those the texts hold
Escapes ==
  [c \in {"{", "}", "[", "]", ":", ",", "\"", "Q1 Sales", "rgb(75, 192, 192)"} |->
     CASE c = "{" -> "%7B"
       [] c = "}" -> "%7D"
       [] c = "[" -> "%5B"
       [] c = "]" -> "%5D"
       [] c = ":" -> "%3A"
       [] c = "," -> "%2C"
       [] c = "\"" -> "%22"
       [] c = "Q1 Sales" -> "Q1%20Sales"
       [] c = "rgb(75, 192, 192)" -> "rgb(75%2C%20192%2C%20192)"]

encodeURIComponent(text) ==
  [i \in 1..Len(text) |->
     IF text[i] \in DOMAIN Escapes THEN Escapes[text[i]] ELSE text[i]]

generateChartUrl(config) ==
  <<QUICKCHART_BASE_URL \o "?c=">> \o encodeURIComponent(JSONstringify(config))

(***************************************************************************)
(* download_chart: shape adapter, output path, failure classification.     *)
(* A path is the sequence of its segments.                                 *)
(***************************************************************************)
\* the lift without its test of !normalizedConfig[k]
Lift_Overriding(normalizedConfig, config, k) ==
  IF /\ Truthy(Get(config, "data"))
     /\ TypeofObject(Get(config, "data"))
     /\ Truthy(Get(Get(config, "data"), k))
  THEN Obj(Spread(normalizedConfig.o, [x \in {k} |-> Get(Get(config, "data"), k)]))
  ELSE normalizedConfig

\* one of the three "if config has data property with k" statements
Lift(normalizedConfig, config, k) ==
  IF /\ Truthy(Get(config, "data"))
     /\ TypeofObject(Get(config, "data"))
     /\ Truthy(Get(Get(config, "data"), k))
     /\ Falsy(Get(normalizedConfig, k))
  THEN Obj(Spread(normalizedConfig.o, [x \in {k} |-> Get(Get(config, "data"), k)]))
  ELSE normalizedConfig

\* the adapter with the lift of labels forgotten
ShapeAdapter_NoLabels(config) ==
  Lift(Lift(Obj(SpreadOf(config)), config, "datasets"), config, "type")

\* let normalizedConfig = {...config}, then the three lifts
ShapeAdapter(config) ==
  Lift(Lift(Lift(Obj(SpreadOf(config)), config, "datasets"),
            config, "labels"),
       config, "type")

InvalidConfigObject ==
  McpError("InvalidParams", "Config must be a valid chart configuration object")

InvalidConfigFields ==
  McpError("InvalidParams",
    "Config must include type and datasets properties (either at root level or inside data object)")

\* the checks of download_chart that come before any await
ValidateDownload(config) ==
  IF Falsy(config) \/ ~TypeofObject(config)
  THEN Throw(InvalidConfigObject)
  ELSE IF \/ Falsy(Get(ShapeAdapter(config), "type"))
          \/ Falsy(Get(ShapeAdapter(config), "datasets"))
  THEN Throw(InvalidConfigFields)
  ELSE Return(ShapeAdapter(config))

homeDir == <<"home", "user">>
desktopDir == Append(homeDir, "Desktop")

PathString(p) == "/" \o Join(p, "/")

\* path.dirname(p)
Dirname(p) == IF Len(p) <= 1 THEN <<>> ELSE SubSeq(p, 1, Len(p) - 1)

\* new Date().toISOString(), lexeme by lexeme, in second sec of the minute
ToISOString(sec) ==
  <<"2025-01-01", "T", "10", ":", "20", ":", ToString(10 + sec), ".", "123Z">>

\* .replace(/:/g, '-')
ReplaceColons(text) ==
  [i \in 1..Len(text) |-> IF text[i] = ":" THEN "-" ELSE text[i]]

\* .replace(/\..+/, '')
DropFraction(text) ==
  IF \E i \in 1..Len(text) : text[i] = "."
  THEN SubSeq(text, 1, (CHOOSE i \in 1..Len(text) :
         text[i] = "." /\ \A j \in 1..(i - 1) : text[j] # ".") - 1)
  ELSE text

\* .replace('T', '_')
ReplaceT(text) ==
  [i \in 1..Len(text) |->
     IF text[i] = "T" /\ (\A j \in 1..(i - 1) : text[j] # "T") THEN "_" ELSE text[i]]

Timestamp(sec) == Join(ReplaceT(DropFraction(ReplaceColons(ToISOString(sec)))), "")

\* path.join(baseDir, `${chartType}_${timestamp}.png`)
DefaultOutputPath(baseDir, normalizedConfig, sec) ==
  Append(baseDir,
    OrElse(Get(normalizedConfig, "type"), Str("chart")).s
      \o "_" \o Timestamp(sec) \o ".png")

UnwritableDirectory(outputDir) ==
  McpError("InvalidParams",
    "Output directory does not exist or is not writable: " \o PathString(outputDir))

\* the catches with only EACCES taken for a permission failure
ClassifyTransferError_NoEROFS(error, outputPath) ==
  IF error.code = "EACCES"
  THEN McpError("InvalidParams",
         "Cannot write to " \o PathString(outputPath) \o ": Permission denied")
  ELSE IF error.code = "ENOENT"
  THEN McpError("InvalidParams",
         "Cannot write to " \o PathString(outputPath) \o ": Directory does not exist")
  ELSE McpError("InternalError",
         "Failed to download chart: "
           \o (IF error.message # "" THEN error.message ELSE "Unknown error"))

\* the inner catch around axios.get and writeFile, then the outer catch
ClassifyTransferError(error, outputPath) ==
  IF error.code \in {"EACCES", "EROFS"}
  THEN McpError("InvalidParams",
         "Cannot write to " \o PathString(outputPath) \o ": Permission denied")
  ELSE IF error.code = "ENOENT"
  THEN McpError("InvalidParams",
         "Cannot write to " \o PathString(outputPath) \o ": Directory does not exist")
  ELSE McpError("InternalError",
         "Failed to download chart: "
           \o (IF error.message # "" THEN error.message ELSE "Unknown error"))

(***************************************************************************)
(* Requests the host may send                                              *)
(***************************************************************************)
Point == Arr(<<Num(1), Num(2)>>)

\* what a dataset's data member may hold
DataInputs ==
  {Arr(<<>>), Arr(<<Num(0)>>), Arr(<<Str("")>>), Arr(<<Num(5), Num(0)>>),
   Arr(<<Point>>), Arr(<<Point, Num(5)>>), Arr(<<Num(5), Point>>), Num(5)}

FirstDatasets ==
  {Null, Obj(EmptyObject)}
    \cup {Obj([data |-> d]) : d \in DataInputs}
    \cup {Obj([label |-> Str("Q1 Sales"), data |-> Arr(<<Num(5)>>),
               backgroundColor |-> Str("rgb(75, 192, 192)")]),
          Obj([data |-> Arr(<<Num(5)>>),
               additionalConfig |-> Obj([data |-> Null])]),
          Obj([data |-> Arr(<<Point>>),
               additionalConfig |-> Obj([data |-> Arr(<<Num(7)>>),
                                         fill |-> Bool(FALSE)])])}

NextDatasets ==
  {Null, Obj([data |-> Arr(<<Num(5)>>)]), Obj([data |-> Arr(<<Point>>)])}

\* the sequences of at most n datasets
DatasetSeqs(n) ==
  UNION {{s \in [1..m -> FirstDatasets \cup NextDatasets] :
            /\ s[1] \in FirstDatasets
            /\ \A i \in 2..m : s[i] \in NextDatasets} : m \in 1..n}
    \cup {<<>>}

DatasetsInputs ==
  {Undef, Null, Obj(EmptyObject)} \cup {Arr(s) : s \in DatasetSeqs(MaxDatasets)}

TypeInputs ==
  {Undef, Null, Str(""), Str("foo")}
    \cup {Str(k) : k \in {"bar", "line", "pie", "doughnut", "radar", "polarArea",
                          "scatter", "bubble", "radialGauge", "speedometer"}}

LabelsInputs == {Undef, Arr(<<Str("a"), Str("Q1 Sales")>>)}

TitleInputs == {Undef, Str(""), Str("Sales")}

OptionsInputs ==
  {Undef,
   Obj([scales |-> Obj([y |-> Obj([beginAtZero |-> Bool(TRUE)])])]),
   Obj([title |-> Obj([display |-> Bool(FALSE), text |-> Str("Old")]),
        plugins |-> Obj([legend |-> Obj([display |-> Bool(FALSE)])])])}

\* an object with the members of o that are present
Present(o) == Obj([k \in {x \in DOMAIN o : o[x] # Undef} |-> o[k]])

\* the arguments of generate_chart
ChartArgs ==
  {Undef} \cup
  {Present([type |-> ty, labels |-> la, datasets |-> ds, title |-> ti, options |-> op]) :
     ty \in TypeInputs, la \in LabelsInputs, ds \in DatasetsInputs,
     ti \in TitleInputs, op \in OptionsInputs}

DownloadTypes ==
  {Undef, Str(""), Str("bar"), Str("scatter"), Str("radialGauge"), Str("foo")}

DownloadDatasets ==
  {Undef, Null, Arr(<<>>), Arr(<<Obj(EmptyObject)>>),
   Arr(<<Obj([data |-> Arr(<<Num(5)>>)])>>),
   Arr(<<Obj([data |-> Arr(<<Point>>)])>>)}

DownloadLabels == {Undef, Null, Arr(<<Str("a")>>)}

DownloadOptions == {Undef, Obj([legend |-> Obj([display |-> Bool(FALSE)])])}

\* the flat shape {type, datasets, labels, options}
FlatShape(ty, ds, la, op) ==
  Present([type |-> ty, datasets |-> ds, labels |-> la, options |-> op])

\* the nested shape {type, data: {datasets, labels}, options}
NestedShape(ty, ds, la, op) ==
  Present([type |-> ty, data |-> Present([datasets |-> ds, labels |-> la]),
           options |-> op])

FlatConfigs ==
  {FlatShape(ty, ds, la, op) : ty \in DownloadTypes, ds \in DownloadDatasets,
                               la \in DownloadLabels, op \in DownloadOptions}

NestedConfigs ==
  {NestedShape(ty, ds, la, op) : ty \in DownloadTypes, ds \in DownloadDatasets,
                                 la \in DownloadLabels, op \in DownloadOptions}

\* configurations that hold a field at the top level and inside data
MixedConfigs ==
  {Present([type |-> ty, datasets |-> ds, labels |-> la,
            data |-> Present([type |-> nty, datasets |-> nds, labels |-> nla])]) :
     ty \in {Undef, Str(""), Str("bar")},
     ds \in {Undef, Null, Arr(<<Obj([data |-> Arr(<<Num(5)>>)])>>)},
     la \in {Undef, Null, Arr(<<>>), Arr(<<Str("a")>>)},
     nty \in {Undef, Str("pie")},
     nds \in {Undef, Arr(<<Obj([data |-> Arr(<<Num(7)>>)])>>)},
     nla \in {Undef, Arr(<<Str("n")>>)}}

\* configurations whose data member is no object, and no configuration at all
OddConfigs ==
  {Undef, Null, Str("bar"),
   Obj([type |-> Str("bar"), data |-> Str("x")]),
   Obj([type |-> Str("bar"), data |-> Null,
        datasets |-> Arr(<<Obj([data |-> Arr(<<Num(5)>>)])>>)])}

DownloadConfigs == FlatConfigs \cup NestedConfigs \cup MixedConfigs \cup OddConfigs

\* the outputPath argument; the empty path stands for none given
OutputPathInputs == {<<>>, <<"tmp", "charts", "out.png">>}

ToolNames == {"generate_chart", "download_chart", "list_charts"}

(***************************************************************************)
(* The CallToolRequestSchema handler.  Each request runs the handler       *)
(* once; an await that waits for the outside world ends a step.            *)
(***************************************************************************)
Req == 1..NumReq

Pending == Throw(McpError("", ""))

\* no error caught yet by the catch around axios.get and writeFile
NoError == [code |-> "none", message |-> ""]

IdleRequest ==
  [pc |-> "idle", name |-> "", arguments |-> Undef, outputPathArg |-> <<>>,
   normalizedConfig |-> Undef, outputPath |-> <<>>, chartConfig |-> Pending,
   url |-> <<>>, data |-> <<>>, io |-> <<>>, thrown |-> NoError,
   response |-> Pending]

Init ==
  /\ req = [r \in Req |-> IdleRequest]
  /\ files = [p \in {} |-> <<>>]

\* request r arrives with a tool name and arguments
Send(r, name, arguments, outputPathArg) ==
  req' = [req EXCEPT ![r] =
            [@ EXCEPT !.pc = "called", !.name = name,
                      !.arguments = arguments,
                      !.outputPathArg = outputPathArg]]

\* the host sends a tools/call request
Call(r) ==
  /\ req[r].pc = "idle"
  /\ \E name \in ToolNames :
       \E arguments \in (CASE name = "download_chart" ->
                                {Undef} \cup {Obj([config |-> c]) : c \in DownloadConfigs}
                           [] name = "generate_chart" -> ChartArgs
                           [] OTHER -> {Undef}) :
         \E outputPathArg \in (IF name = "download_chart" /\ arguments # Undef
                               THEN OutputPathInputs ELSE {<<>>}) :
           Send(r, name, arguments, outputPathArg)
  /\ UNCHANGED files

\* {content: [{type: 'text', text}]}
TextContent(text) == [type |-> "text", text |-> text]

\* case 'generate_chart'
GenerateChart(r) ==
  /\ req[r].pc = "called"
  /\ req[r].name = "generate_chart"
  /\ LET config == generateChartConfig(req[r].arguments)
         url == IF config.ok THEN generateChartUrl(config.val) ELSE <<>>
     IN req' = [req EXCEPT ![r] =
                  [@ EXCEPT !.pc = "done", !.chartConfig = config, !.url = url,
                            !.response = IF config.ok
                                         THEN Return(TextContent(url))
                                         ELSE config]]
  /\ UNCHANGED files

\* default: of the switch on the tool name
UnknownTool(r) ==
  /\ req[r].pc = "called"
  /\ req[r].name \notin {"generate_chart", "download_chart"}
  /\ req' = [req EXCEPT ![r] =
               [@ EXCEPT !.pc = "done",
                         !.response = Throw(McpError("MethodNotFound",
                                        "Unknown tool: " \o req[r].name))]]
  /\ UNCHANGED files

DestructureError ==
  McpError("InternalError",
    "Failed to download chart: Cannot destructure property 'config' of undefined")

\* case 'download_chart', up to the first access to the file system
DownloadChart(r) ==
  /\ req[r].pc = "called"
  /\ req[r].name = "download_chart"
  /\ IF req[r].arguments = Undef
     THEN req' = [req EXCEPT ![r] =
                    [@ EXCEPT !.pc = "done", !.response = Throw(DestructureError)]]
     ELSE LET checked == ValidateDownload(Get(req[r].arguments, "config"))
          IN IF ~checked.ok
             THEN req' = [req EXCEPT ![r] =
                            [@ EXCEPT !.pc = "done", !.response = checked]]
             ELSE req' = [req EXCEPT ![r] =
                            [@ EXCEPT !.pc = IF req[r].outputPathArg = <<>>
                                             THEN "probeDesktop"
                                             ELSE "probeOutputDir",
                                      !.normalizedConfig = checked.val,
                                      !.outputPath = req[r].outputPathArg]]
  /\ UNCHANGED files

\* await fs.promises.access(desktopDir, W_OK), and the default output path
ProbeDesktop(r) ==
  /\ req[r].pc = "probeDesktop"
  /\ \E writable \in BOOLEAN, sec \in 1..MaxClock :
       req' = [req EXCEPT ![r] =
                 [@ EXCEPT !.pc = "probeOutputDir",
                           !.io = Append(@, "access Desktop"),
                           !.outputPath =
                              DefaultOutputPath(
                                IF writable THEN desktopDir ELSE homeDir,
                                req[r].normalizedConfig, sec)]]
  /\ UNCHANGED files

\* await fs.promises.access(outputDir, W_OK), then the normalizer and the URL
ProbeOutputDir(r) ==
  /\ req[r].pc = "probeOutputDir"
  /\ \E writable \in BOOLEAN :
       LET config == generateChartConfig(req[r].normalizedConfig)
       IN req' = [req EXCEPT ![r] =
            IF ~writable
            THEN [@ EXCEPT !.pc = "done",
                           !.io = Append(@, "access outputDir"),
                           !.response =
                              Throw(UnwritableDirectory(Dirname(req[r].outputPath)))]
            ELSE IF ~config.ok
            THEN [@ EXCEPT !.pc = "done",
                           !.io = Append(@, "access outputDir"),
                           !.chartConfig = config,
                           !.response = config]
            ELSE [@ EXCEPT !.pc = "fetch",
                           !.io = Append(@, "access outputDir"),
                           !.chartConfig = config,
                           !.url = generateChartUrl(config.val)]]
  /\ UNCHANGED files

\* the errors axios.get may throw: error.code and error.message
FetchErrors ==
  {[code |-> "ECONNREFUSED", message |-> "connect ECONNREFUSED 127.0.0.1:443"],
   [code |-> "ERR_BAD_REQUEST", message |-> "Request failed with status code 400"],
   [code |-> "EACCES", message |-> "connect EACCES"],
   [code |-> "", message |-> "socket hang up"],
   [code |-> "", message |-> ""]}

\* the errors fs.promises.writeFile may throw
WriteErrors ==
  {[code |-> "EACCES", message |-> "EACCES: permission denied, open"],
   [code |-> "EROFS", message |-> "EROFS: read-only file system, open"],
   [code |-> "ENOENT", message |-> "ENOENT: no such file or directory, open"],
   [code |-> "EISDIR", message |-> "EISDIR: illegal operation on a directory, open"]}

\* the image the rendering service answers a URL with: as many blocks of
\* bytes as the URL has lexemes, so that different URLs give different images
Image(url) == [png |-> url]

\* the fetch with its error swallowed: the handler goes on to the write
Fetch_SwallowingError(r) ==
  /\ req[r].pc = "fetch"
  /\ \/ req' = [req EXCEPT ![r] =
                  [@ EXCEPT !.pc = "write", !.io = Append(@, "fetch"),
                            !.data = Image(req[r].url)]]
     \/ \E error \in FetchErrors :
          req' = [req EXCEPT ![r] =
                    [@ EXCEPT !.pc = "write", !.io = Append(@, "fetch"),
                              !.thrown = error,
                              !.data = Image(<<>>)]]
  /\ UNCHANGED files

\* await axios.get(url, {responseType: 'arraybuffer'})
Fetch(r) ==
  /\ req[r].pc = "fetch"
  /\ \/ req' = [req EXCEPT ![r] =
                  [@ EXCEPT !.pc = "write", !.io = Append(@, "fetch"),
                            !.data = Image(req[r].url)]]
     \/ \E error \in FetchErrors :
          req' = [req EXCEPT ![r] =
                    [@ EXCEPT !.pc = "done", !.io = Append(@, "fetch"),
                              !.thrown = error,
                              !.response = Throw(ClassifyTransferError(
                                             error, req[r].outputPath))]]
  /\ UNCHANGED files

\* a file opened with flag 'w': created, or truncated to no bytes
EmptyFile == [png |-> <<>>]

\* write(fd, data) at position 0 of a file that holds content: the bytes of
\* content beyond the length of data stay
Overwrite(content, data) ==
  [png |-> data.png \o SubSeq(content.png, Len(data.png) + 1, Len(content.png))]

\* await fs.promises.writeFile(outputPath, response.data), first half: the
\* file is opened for writing, which is where the call fails if it fails
OpenFile(r) ==
  /\ req[r].pc = "write"
  /\ \/ /\ req' = [req EXCEPT ![r] =
                     [@ EXCEPT !.pc = "writing", !.io = Append(@, "writeFile")]]
        /\ files' = [p \in DOMAIN files \cup {req[r].outputPath} |->
                       IF p = req[r].outputPath THEN EmptyFile ELSE files[p]]
     \/ /\ \E error \in WriteErrors :
             req' = [req EXCEPT ![r] =
                       [@ EXCEPT !.pc = "done", !.io = Append(@, "writeFile"),
                                 !.thrown = error,
                                 !.response = Throw(ClassifyTransferError(
                                                error, req[r].outputPath))]]
        /\ UNCHANGED files

\* a write that leaves a file that holds bytes as it is
WriteFile_KeepFirst(r) ==
  /\ req[r].pc = "writing"
  /\ req' = [req EXCEPT ![r] =
               [@ EXCEPT !.pc = "done",
                         !.response = Return(TextContent(
                            "Chart saved to " \o PathString(req[r].outputPath)))]]
  /\ files' = [files EXCEPT ![req[r].outputPath] =
                 IF @ = EmptyFile THEN req[r].data ELSE @]

\* await fs.promises.writeFile(outputPath, response.data), second half: the
\* bytes are written from position 0 and the file is closed; then the return
WriteFile(r) ==
  /\ req[r].pc = "writing"
  /\ req' = [req EXCEPT ![r] =
               [@ EXCEPT !.pc = "done",
                         !.response = Return(TextContent(
                            "Chart saved to " \o PathString(req[r].outputPath)))]]
  /\ files' = [files EXCEPT ![req[r].outputPath] = Overwrite(@, req[r].data)]

\* no other request has been sent
Alone(r) == \A q \in Req \ {r} : req[q].pc = "idle"

\* one request is handled in a behaviour, by any of the request slots
Next ==
  \E r \in Req :
    \/ Alone(r) /\ Call(r)
    \/ GenerateChart(r)
    \/ UnknownTool(r)
    \/ DownloadChart(r)
    \/ ProbeDesktop(r)
    \/ ProbeOutputDir(r)
    \/ Fetch(r)
    \/ OpenFile(r)
    \/ WriteFile(r)

Spec == Init /\ [][Next]_vars

(***************************************************************************)
(* Requests in flight together: the handler is async, and a request is     *)
(* suspended at each await while the steps of the others run               *)
(***************************************************************************)
\* two configurations of one chart type whose images differ in length
ConcConfigs ==
  {FlatShape(Str("bar"), Arr(<<Obj([data |-> Arr(d)])>>), Undef, Undef) :
     d \in {<<Num(5)>>, <<Num(5), Num(7)>>}}

ConcChartArgs ==
  {Obj([type |-> Str("pie"), datasets |-> Arr(<<Obj([data |-> Arr(<<Num(5)>>)])>>)])}

ConcToolNames == {"generate_chart", "download_chart"}

\* a request arrives whatever the other requests are doing; a download
\* names no output path, so that its path is derived
ConcCall(r) ==
  /\ req[r].pc = "idle"
  /\ \E name \in ConcToolNames :
       \E arguments \in (IF name = "download_chart"
                         THEN {Obj([config |-> c]) : c \in ConcConfigs}
                         ELSE ConcChartArgs) :
         Send(r, name, arguments, <<>>)
  /\ UNCHANGED files

\* the Desktop probe of a request in flight with others: the Desktop is
\* writable throughout, the clock is read in any second
ConcProbeDesktop(r) ==
  /\ ProbeDesktop(r)
  /\ Dirname(req'[r].outputPath) = desktopDir

\* axios.get of a request in flight with others: it answers or is refused
ConcFetch(r) ==
  /\ Fetch(r)
  /\ req'[r].thrown.code \in {"none", "ECONNREFUSED"}

\* writeFile of a request in flight with others: the file is opened, or the
\* call fails with EROFS
ConcOpenFile(r) ==
  /\ OpenFile(r)
  /\ req'[r].thrown.code \in {"none", "EROFS"}

ConcNext ==
  \E r \in Req :
    \/ ConcCall(r)
    \/ GenerateChart(r)
    \/ DownloadChart(r)
    \/ ConcProbeDesktop(r)
    \/ ProbeOutputDir(r)
    \/ ConcFetch(r)
    \/ ConcOpenFile(r)
    \/ WriteFile(r)

SpecConc == Init /\ [][ConcNext]_vars

(***************************************************************************)
(* What the properties below speak of                                      *)
(***************************************************************************)
\* the normalizer has run for request r
Normalized(r) == req[r].chartConfig # Pending

\* the value the normalizer was called with
NormalizerInput(r) ==
  IF req[r].name = "generate_chart" THEN req[r].arguments ELSE req[r].normalizedConfig

\* the ten chart kinds of the enumerated set
EnumeratedKinds ==
  {"bar", "line", "pie", "doughnut", "radar", "polarArea", "scatter", "bubble",
   "radialGauge", "speedometer"}

IsEnumerated(type) == type.t = "string" /\ type.s \in EnumeratedKinds

InvalidEnum ==
  McpError("InvalidParams",
    "Invalid chart type. Must be one of: bar, line, pie, doughnut, radar, polarArea, scatter, bubble, radialGauge, speedometer")

\* the datasets of an input, when they are a sequence
DatasetsOf(args) ==
  IF Get(args, "datasets").t = "array" THEN Get(args, "datasets").a ELSE <<>>

\* the first element of a dataset's data, undefined when there is none
FirstElement(dataset) ==
  IF /\ dataset.t = "object"
     /\ "data" \in DOMAIN dataset.o
     /\ dataset.o["data"].t = "array"
     /\ dataset.o["data"].a # <<>>
  THEN dataset.o["data"].a[1]
  ELSE Undef

HasData(dataset) ==
  /\ dataset.t = "object"
  /\ "data" \in DOMAIN dataset.o
  /\ Truthy(dataset.o["data"])

\* datasets[0].data[0], undefined when it is missing
GaugeValue(args) ==
  IF DatasetsOf(args) = <<>> THEN Undef ELSE FirstElement(DatasetsOf(args)[1])

IsGauge(type) == type.t = "string" /\ type.s \in {"radialGauge", "speedometer"}
IsPoints(type) == type.t = "string" /\ type.s \in {"scatter", "bubble"}

\* decodeURIComponent, on the lexemes encodeURIComponent wrote
decodeURIComponent(text) ==
  [i \in 1..Len(text) |->
     IF \E c \in DOMAIN Escapes : Escapes[c] = text[i]
     THEN CHOOSE c \in DOMAIN Escapes : Escapes[c] = text[i]
     ELSE text[i]]

\* the integers a chart in these requests may hold
MaxNumber == 9

RECURSIVE ParseValue(_), ParseElements(_, _), ParseMembers(_, _)
\* JSON.parse: the value a text starts with, and the text left after it
ParseValue(text) ==
  CASE text[1] = "null" -> [val |-> Null, rest |-> Tail(text)]
    [] text[1] = "true" -> [val |-> Bool(TRUE), rest |-> Tail(text)]
    [] text[1] = "false" -> [val |-> Bool(FALSE), rest |-> Tail(text)]
    [] text[1] = "\"" -> [val |-> Str(text[2]), rest |-> SubSeq(text, 4, Len(text))]
    [] text[1] = "[" ->
         IF text[2] = "]"
         THEN [val |-> Arr(<<>>), rest |-> SubSeq(text, 3, Len(text))]
         ELSE ParseElements(Tail(text), <<>>)
    [] text[1] = "{" ->
         IF text[2] = "}"
         THEN [val |-> Obj(EmptyObject), rest |-> SubSeq(text, 3, Len(text))]
         ELSE ParseMembers(Tail(text), EmptyObject)
    [] OTHER ->
         [val |-> Num(CHOOSE n \in 0..MaxNumber : ToString(n) = text[1]),
          rest |-> Tail(text)]

ParseElements(text, acc) ==
  LET e == ParseValue(text)
  IN IF e.rest[1] = ","
     THEN ParseElements(Tail(e.rest), Append(acc, e.val))
     ELSE [val |-> Arr(Append(acc, e.val)), rest |-> Tail(e.rest)]

ParseMembers(text, acc) ==
  LET m == ParseValue(SubSeq(text, 5, Len(text)))
      o == Spread(acc, [k \in {text[2]} |-> m.val])
  IN IF m.rest[1] = ","
     THEN ParseMembers(Tail(m.rest), o)
     ELSE [val |-> Obj(o), rest |-> Tail(m.rest)]

JSONparse(text) == ParseValue(text).val

(***************************************************************************)
(* Properties                                                              *)
(***************************************************************************)
\* the failures of the shape adapter and of the normalizer
IsValidationFailure(r) ==
  /\ req[r].pc = "done"
  /\ ~req[r].response.ok
  /\ \/ req[r].response.val \in {InvalidConfigObject, InvalidConfigFields}
     \/ Normalized(r) /\ req[r].response = req[r].chartConfig

\* C1: a request that ends in a validation failure (the download adapter's
\* InvalidConfig or any failure of the normalizer) has attempted no network
\* and no filesystem operation, the write-access probes included.
C1_ValidationBeforeIO ==
  \A r \in Req : IsValidationFailure(r) => req[r].io = <<>>

\* C2 as stated: whenever the normalizer is given an input whose type value
\* is not one of the ten enumerated kinds, it fails with InvalidEnum, whose
\* message lists the ten kinds.
C2_AnyTypeOutsideEnum ==
  \A r \in Req :
    /\ Normalized(r)
    /\ NormalizerInput(r).t = "object"
    /\ "type" \in DOMAIN NormalizerInput(r).o
    /\ ~IsEnumerated(Get(NormalizerInput(r), "type"))
    => req[r].chartConfig = Throw(InvalidEnum)

\* C2 as amended: whenever the normalizer is given a truthy type that is not
\* one of the ten enumerated kinds, together with datasets that are a
\* sequence, it fails with InvalidEnum, whose message lists the ten kinds.
C2_InvalidEnum ==
  \A r \in Req :
    /\ Normalized(r)
    /\ Truthy(Get(NormalizerInput(r), "type"))
    /\ ~IsEnumerated(Get(NormalizerInput(r), "type"))
    /\ IsArray(Get(NormalizerInput(r), "datasets"))
    => req[r].chartConfig = Throw(InvalidEnum)

C2_Witness ==
  \E r \in Req :
    /\ Normalized(r)
    /\ Get(NormalizerInput(r), "type") = Str("foo")
    /\ IsArray(Get(NormalizerInput(r), "datasets"))
    /\ req[r].chartConfig = Throw(InvalidEnum)

\* datasets every one of which has data, with the shape the chart kind asks for
WellFormed(args) ==
  /\ args.t = "object"
  /\ IsEnumerated(Get(args, "type"))
  /\ IsArray(Get(args, "datasets"))
  /\ \A i \in 1..Len(DatasetsOf(args)) : HasData(DatasetsOf(args)[i])
  /\ IsPoints(Get(args, "type")) =>
       \A i \in 1..Len(DatasetsOf(args)) : IsArray(FirstElement(DatasetsOf(args)[i]))
  /\ IsGauge(Get(args, "type")) => Truthy(GaugeValue(args))

\* C3: for a type of the enumerated set and well-formed datasets the
\* normalizer returns a configuration, not a failure, and the type of the
\* configuration is the type it was given.
C3_WellFormedSucceeds ==
  \A r \in Req :
    Normalized(r) /\ WellFormed(NormalizerInput(r))
      => /\ req[r].chartConfig.ok
         /\ Get(req[r].chartConfig.val, "type") = Get(NormalizerInput(r), "type")

C3_Witness ==
  \E r \in Req :
    /\ Normalized(r)
    /\ WellFormed(NormalizerInput(r))
    /\ Get(NormalizerInput(r), "type") = Str("speedometer")
    /\ Len(DatasetsOf(NormalizerInput(r))) = 2
    /\ req[r].chartConfig.ok

\* C4: in every configuration the normalizer returns, data.datasets is a
\* sequence and every element of it has a data value that is neither null
\* nor undefined.
C4_ConcreteData ==
  \A r \in Req :
    Normalized(r) /\ req[r].chartConfig.ok
      => LET datasets == Get(Get(req[r].chartConfig.val, "data"), "datasets")
         IN /\ IsArray(datasets)
            /\ \A i \in 1..Len(datasets.a) :
                 Get(datasets.a[i], "data") \notin {Undef, Null}

\* C5: the URL of every configuration the normalizer returns starts with
\* https://quickchart.io/chart?c= and the rest of it, percent-decoded and
\* parsed as JSON, is the configuration.
C5_UrlRoundTrip ==
  \A r \in Req :
    Normalized(r) /\ req[r].chartConfig.ok /\ req[r].url # <<>>
      => /\ req[r].url[1] = "https://quickchart.io/chart?c="
         /\ JSONparse(decodeURIComponent(Tail(req[r].url))) = req[r].chartConfig.val

\* the option keys the caller passed
CallerOptions(args) == SpreadOf(Get(args, "options"))

\* C6: for radialGauge and speedometer the normalizer fails with an
\* invalid-parameters failure whenever datasets[0].data[0] is missing or
\* falsy; whenever it is truthy (and every dataset has data) it returns
\* options that hold plugins.datalabels with display true and a formatter,
\* next to the caller's other option keys and the title.
C6_Gauge ==
  \A r \in Req :
    Normalized(r) /\ NormalizerInput(r).t = "object"
      /\ IsGauge(Get(NormalizerInput(r), "type"))
    => LET args == NormalizerInput(r)
           result == req[r].chartConfig
           options == Get(result.val, "options")
           datalabels == Get(Get(options, "plugins"), "datalabels")
       IN /\ Falsy(GaugeValue(args))
               => ~result.ok /\ result.val.code = "InvalidParams"
          /\ /\ Truthy(GaugeValue(args))
             /\ \A i \in 1..Len(DatasetsOf(args)) : HasData(DatasetsOf(args)[i])
             => /\ result.ok
                /\ Get(datalabels, "display") = Bool(TRUE)
                /\ Get(datalabels, "formatter").t = "function"
                /\ \A k \in DOMAIN CallerOptions(args) \ {"plugins", "title"} :
                     Get(options, k) = CallerOptions(args)[k]
                /\ Truthy(Get(args, "title"))
                     => Get(options, "title") =
                          Obj([display |-> Bool(TRUE), text |-> Get(args, "title")])
                /\ Falsy(Get(args, "title"))
                     => Get(options, "title") = Get(Get(args, "options"), "title")

C6_Witness ==
  \E r \in Req :
    /\ Normalized(r)
    /\ Get(NormalizerInput(r), "type") = Str("radialGauge")
    /\ Truthy(GaugeValue(NormalizerInput(r)))
    /\ Get(NormalizerInput(r), "title") = Str("Sales")
    /\ "scales" \in DOMAIN CallerOptions(NormalizerInput(r))
    /\ req[r].chartConfig.ok
    /\ "scales" \in DOMAIN Get(req[r].chartConfig.val, "options").o

\* C7: for scatter and bubble the normalizer returns a configuration only if
\* the first data element of every dataset is an array; if the first data
\* element of any dataset is not an array it fails with an
\* invalid-parameters failure; data elements after the first are not checked.
C7_Points ==
  \A r \in Req :
    Normalized(r) /\ NormalizerInput(r).t = "object"
      /\ IsPoints(Get(NormalizerInput(r), "type"))
    => LET datasets == DatasetsOf(NormalizerInput(r))
           result == req[r].chartConfig
       IN /\ result.ok
               => \A i \in 1..Len(datasets) : IsArray(FirstElement(datasets[i]))
          /\ (\E i \in 1..Len(datasets) : ~IsArray(FirstElement(datasets[i])))
               => ~result.ok /\ result.val.code = "InvalidParams"
          /\ /\ IsArray(Get(NormalizerInput(r), "datasets"))
             /\ \A i \in 1..Len(datasets) : IsArray(FirstElement(datasets[i]))
             => result.ok

C7_Witness ==
  \E r \in Req :
    /\ Normalized(r)
    /\ Get(NormalizerInput(r), "type") = Str("bubble")
    /\ Len(DatasetsOf(NormalizerInput(r))) = 2
    /\ Get(DatasetsOf(NormalizerInput(r))[1], "data") = Arr(<<Point, Num(5)>>)
    /\ req[r].chartConfig.ok

\* C8: whenever a non-empty title string is supplied and the normalizer
\* returns, options.title is {display: true, text: title}, whatever the
\* chart type and whatever options.title the caller passed, and every other
\* option key of the caller is kept with its value.
C8_TitlePropagation ==
  \A r \in Req :
    /\ Normalized(r)
    /\ req[r].chartConfig.ok
    /\ Get(NormalizerInput(r), "title").t = "string"
    /\ Get(NormalizerInput(r), "title") # Str("")
    => LET args == NormalizerInput(r)
           options == Get(req[r].chartConfig.val, "options")
       IN /\ Get(options, "title") =
               Obj([display |-> Bool(TRUE), text |-> Get(args, "title")])
          /\ \A k \in DOMAIN CallerOptions(args) \ {"title"} :
               Get(options, k) = CallerOptions(args)[k]

\* the nested shape {type, data: {datasets, labels}, options}
IsNested(config) ==
  /\ config.t = "object"
  /\ "data" \in DOMAIN config.o
  /\ DOMAIN config.o \subseteq {"type", "data", "options"}
  /\ config.o["data"].t = "object"
  /\ DOMAIN config.o["data"].o \subseteq {"datasets", "labels"}

\* the flat shape with the values of a nested one
FlatOf(config) ==
  Present([type |-> Get(config, "type"),
           datasets |-> Get(Get(config, "data"), "datasets"),
           labels |-> Get(Get(config, "data"), "labels"),
           options |-> Get(config, "options")])

\* C9: a download_chart request that submits a chart description in the
\* nested shape gets the canonical configuration and the URL, or the
\* failure, that the flat shape with the same values gets.
C9_NestedAsFlat ==
  \A r \in Req :
    /\ req[r].name = "download_chart"
    /\ req[r].pc \notin {"idle", "called"}
    /\ req[r].arguments # Undef
    /\ IsNested(Get(req[r].arguments, "config"))
    => LET flat == ValidateDownload(FlatOf(Get(req[r].arguments, "config")))
       IN IF ~flat.ok
          THEN req[r].pc = "done" /\ req[r].response = flat
          ELSE /\ req[r].normalizedConfig # Undef
               /\ Normalized(r) =>
                    /\ req[r].chartConfig = generateChartConfig(flat.val)
                    /\ req[r].chartConfig.ok =>
                         req[r].url = generateChartUrl(generateChartConfig(flat.val).val)
                    /\ ~req[r].chartConfig.ok =>
                         req[r].response = generateChartConfig(flat.val)

C9_Witness ==
  \E r \in Req :
    /\ req[r].name = "download_chart"
    /\ req[r].arguments # Undef
    /\ IsNested(Get(req[r].arguments, "config"))
    /\ Get(Get(Get(req[r].arguments, "config"), "data"), "labels") = Arr(<<Str("a")>>)
    /\ Normalized(r)
    /\ req[r].chartConfig.ok
    /\ req[r].url # <<>>

AdapterFields == {"type", "datasets", "labels"}

\* the download_chart requests whose configuration passed the adapter
Adapted(r) ==
  /\ req[r].name = "download_chart"
  /\ req[r].normalizedConfig # Undef

\* C10 as stated: a field among type, datasets and labels that is present
\* at the top level of config reaches the normalizer with its top-level
\* value, whatever config.data holds.
C10_PresentNeverOverwritten ==
  \A r \in Req :
    Adapted(r) =>
      \A k \in AdapterFields \cap DOMAIN Get(req[r].arguments, "config").o :
        Get(req[r].normalizedConfig, k) = Get(Get(req[r].arguments, "config"), k)

\* C10 as amended: a field among type, datasets and labels whose top-level
\* value is truthy reaches the normalizer with that value, whatever
\* config.data holds; the nested value is used only when the top-level
\* field is absent or falsy (null, the empty string) and the nested value
\* is truthy.
C10_TruthyNeverOverwritten ==
  \A r \in Req :
    Adapted(r) =>
      LET config == Get(req[r].arguments, "config")
      IN \A k \in AdapterFields :
           /\ Truthy(Get(config, k))
                => Get(req[r].normalizedConfig, k) = Get(config, k)
           /\ Get(req[r].normalizedConfig, k) # Get(config, k)
                => /\ Falsy(Get(config, k))
                   /\ Truthy(Get(Get(config, "data"), k))
                   /\ Get(req[r].normalizedConfig, k) = Get(Get(config, "data"), k)

C10_Witness ==
  \E r \in Req :
    /\ Adapted(r)
    /\ Get(Get(req[r].arguments, "config"), "type") = Str("bar")
    /\ Get(Get(Get(req[r].arguments, "config"), "data"), "type") = Str("pie")
    /\ Get(req[r].normalizedConfig, "type") = Str("bar")

MissingInput ==
  McpError("InvalidParams", "No arguments provided to generateChartConfig")

MissingType == McpError("InvalidParams", "Chart type is required")

InvalidDatasets == McpError("InvalidParams", "Datasets must be a non-empty array")

InvalidDatasetData ==
  McpError("InvalidParams", "Each dataset must have a data property")

\* the failures of the checks special to a chart kind
KindFailures ==
  {McpError("InvalidParams", k \o " requires a single numeric value") :
     k \in {"radialGauge", "speedometer"}}
    \cup {McpError("InvalidParams", "scatter requires data points in [x, y] format"),
          McpError("InvalidParams", "bubble requires data points in [x, y, r] format")}

\* the gates an input violates, by their number in the list of the gates;
\* gate 2 takes the empty string and null for an absent type, as gate 1
\* takes null for an absent input
ViolatedGates(args) ==
  (IF Falsy(args) THEN {1} ELSE {})
    \cup (IF Falsy(Get(args, "type")) THEN {2} ELSE {})
    \cup (IF ~IsArray(Get(args, "datasets")) THEN {3} ELSE {})
    \cup (IF ~IsEnumerated(Get(args, "type")) THEN {4} ELSE {})
    \cup (IF \E i \in 1..Len(DatasetsOf(args)) : ~HasData(DatasetsOf(args)[i])
          THEN {5} ELSE {})

GateFailure(gate) ==
  CASE gate = 1 -> MissingInput
    [] gate = 2 -> MissingType
    [] gate = 3 -> InvalidDatasets
    [] gate = 4 -> InvalidEnum
    [] gate = 5 -> InvalidDatasetData

FirstGate(gates) == CHOOSE g \in gates : \A h \in gates : g <= h

\* C12: the normalizer reports the failure of the first gate its input
\* violates, in the order missing input, missing type, invalid datasets,
\* invalid enum, dataset without data; only an input that passes all five
\* reaches the checks special to the chart kind.
C12_FirstGateFails ==
  \A r \in Req :
    Normalized(r) =>
      IF ViolatedGates(NormalizerInput(r)) # {}
      THEN req[r].chartConfig =
             Throw(GateFailure(FirstGate(ViolatedGates(NormalizerInput(r)))))
      ELSE req[r].chartConfig.ok \/ req[r].chartConfig.val \in KindFailures

C12_Witness ==
  \E r \in Req :
    /\ Normalized(r)
    /\ {3, 4, 5} \subseteq ViolatedGates(NormalizerInput(r))
         \/ {3, 4} = ViolatedGates(NormalizerInput(r))
    /\ req[r].chartConfig = Throw(InvalidDatasets)

StepsOf(log) == {log[i] : i \in 1..Len(log)}

\* the steps of a download after the output path is resolved; the URL is
\* built between the first and the second without any I/O
DownloadSteps == <<"access outputDir", "fetch", "writeFile">>

\* the I/O of request r from the probe of the output directory on
StepsTaken(r) == SelectSeq(req[r].io, LAMBDA step : step # "access Desktop")

IsDownload(r) == req[r].name = "download_chart"

UrlBuilt(r) == req[r].url # <<>>

SavedResponse(r) ==
  Return([type |-> "text",
          text |-> "Chart saved to " \o PathString(req[r].outputPath)])

\* C13: a download takes its steps in the order write-access check of the
\* output directory, URL construction, fetch, write, and a failed step stops
\* it: after a failed access check nothing is fetched, after a failed fetch
\* nothing is written, and the response naming the saved path comes only
\* once the write is completed, with the fetched payload in the file.
C13_StepOrder ==
  \A r \in Req :
    IsDownload(r) =>
      /\ \E n \in 0..Len(DownloadSteps) : StepsTaken(r) = SubSeq(DownloadSteps, 1, n)
      /\ UrlBuilt(r) => "access outputDir" \in StepsOf(req[r].io)
      /\ "fetch" \in StepsOf(req[r].io) => UrlBuilt(r)
      /\ (/\ req[r].pc = "done"
          /\ ~req[r].response.ok
          /\ req[r].response.val = UnwritableDirectory(Dirname(req[r].outputPath)))
           => /\ "fetch" \notin StepsOf(req[r].io)
              /\ ~UrlBuilt(r)
              /\ req[r].outputPath \notin DOMAIN files
      /\ req[r].thrown \in FetchErrors
           => /\ "writeFile" \notin StepsOf(req[r].io)
              /\ req[r].outputPath \notin DOMAIN files
              /\ req[r].pc = "done"
              /\ ~req[r].response.ok
      /\ (req[r].pc = "done" /\ req[r].response.ok)
           => /\ req[r].response = SavedResponse(r)
              /\ StepsTaken(r) = DownloadSteps
              /\ req[r].outputPath \in DOMAIN files
              /\ files[req[r].outputPath] = [png |-> req[r].url]
      /\ "writeFile" \notin StepsOf(req[r].io) => req[r].outputPath \notin DOMAIN files

C13_Witness ==
  \E r \in Req :
    /\ IsDownload(r)
    /\ req[r].pc = "done"
    /\ req[r].response.ok
    /\ StepsTaken(r) = DownloadSteps
    /\ req[r].outputPath \in DOMAIN files

WritePermissionDenied(outputPath) ==
  [code |-> "InvalidParams",
   message |-> "Cannot write to " \o PathString(outputPath) \o ": Permission denied"]

DirectoryNotFound(outputPath) ==
  [code |-> "InvalidParams",
   message |-> "Cannot write to " \o PathString(outputPath)
                 \o ": Directory does not exist"]

\* an error without a message is reported as "Unknown error"
TransferFailure(message) ==
  [code |-> "InternalError",
   message |-> "Failed to download chart: "
                 \o (IF message = "" THEN "Unknown error" ELSE message)]

\* the fetch or the write of request r has thrown
TransferFailed(r) == req[r].thrown.code # "none"

Count(log, step) == Cardinality({i \in 1..Len(log) : log[i] = step})

\* C14: an error thrown by the fetch or the write of a download is
\* classified by its code: EACCES and EROFS give WritePermissionDenied and
\* ENOENT gives DirectoryNotFound, both invalid-parameters and naming the
\* output path; any other code, or none, gives InternalError with the
\* error's message. The error ends the request in that failure at once, and
\* neither step is attempted a second time.
C14_Classification ==
  \A r \in Req :
    /\ TransferFailed(r) =>
         /\ IsDownload(r)
         /\ req[r].pc = "done"
         /\ ~req[r].response.ok
         /\ req[r].response.val =
              CASE req[r].thrown.code \in {"EACCES", "EROFS"} ->
                     WritePermissionDenied(req[r].outputPath)
                [] req[r].thrown.code = "ENOENT" ->
                     DirectoryNotFound(req[r].outputPath)
                [] OTHER -> TransferFailure(req[r].thrown.message)
         /\ req[r].io[Len(req[r].io)] \in {"fetch", "writeFile"}
    /\ Count(req[r].io, "fetch") <= 1
    /\ Count(req[r].io, "writeFile") <= 1

C14_Witness ==
  \E r \in Req :
    /\ TransferFailed(r)
    /\ req[r].thrown.code = "EROFS"
    /\ req[r].response.val = WritePermissionDenied(req[r].outputPath)

\* the payload the rendering service returns for the chart of request r
Payload(r) == [png |-> req[r].url]

Saved(r) ==
  /\ IsDownload(r)
  /\ req[r].pc = "done"
  /\ req[r].response.ok

\* what a finished request answers, told from its own record alone: its
\* arguments, the output path it resolved and the error its I/O threw
OwnOutcome(r) ==
  IF req[r].name = "generate_chart"
  THEN LET config == generateChartConfig(req[r].arguments)
       IN /\ req[r].io = <<>>
          /\ req[r].response =
               IF config.ok
               THEN Return([type |-> "text", text |-> generateChartUrl(config.val)])
               ELSE config
  ELSE LET checked == ValidateDownload(Get(req[r].arguments, "config"))
           config == generateChartConfig(checked.val)
       IN IF ~checked.ok THEN req[r].io = <<>> /\ req[r].response = checked
          ELSE IF TransferFailed(r)
          THEN req[r].response =
                 Throw(ClassifyTransferError(req[r].thrown, req[r].outputPath))
          ELSE IF req[r].response.ok
          THEN /\ req[r].response = SavedResponse(r)
               /\ StepsTaken(r) = DownloadSteps
               /\ config.ok
               /\ req[r].url = generateChartUrl(config.val)
          ELSE /\ StepsTaken(r) = <<"access outputDir">>
               /\ req[r].response \in
                    {Throw(UnwritableDirectory(Dirname(req[r].outputPath))), config}

\* request r has opened the file at path p for writing
Writes(r, p) ==
  /\ IsDownload(r)
  /\ req[r].outputPath = p
  /\ "writeFile" \in StepsOf(req[r].io)
  /\ ~TransferFailed(r)

\* bytes written at the start of a file that held more bytes
Torn(written, held) ==
  [png |-> written.png \o SubSeq(held.png, Len(written.png) + 1, Len(held.png))]

\* a file is empty, opened and not yet written, or holds the payload of a
\* download that wrote it, alone or followed by what is left of the longer
\* payload of another download that wrote it
FilesFromDownloads ==
  \A p \in DOMAIN files :
    \/ files[p].png = <<>> /\ \E r \in Req : Writes(r, p)
    \/ \E r \in Req : Writes(r, p) /\ files[p] = Payload(r)
    \/ \E r, q \in Req :
         /\ Writes(r, p)
         /\ Writes(q, p)
         /\ Len(Payload(q).png) > Len(Payload(r).png)
         /\ files[p] = Torn(Payload(r), Payload(q))

\* request r has its file opened in this step
OpensFile(r) ==
  /\ req[r].pc = "write"
  /\ req'[r].pc = "writing"

\* request r completes its write in this step
CompletesWrite(r) ==
  /\ req[r].pc = "writing"
  /\ req'[r].pc = "done"

OtherFilesKept(r) ==
  /\ DOMAIN files' = DOMAIN files \cup {req[r].outputPath}
  /\ \A p \in DOMAIN files \ {req[r].outputPath} : files'[p] = files[p]

\* a step is a step of one request and leaves the others as they are; only
\* the file at its own path changes, emptied when it is opened and written
\* from the start when the write completes, so that the file then holds the
\* writer's payload whole if it held no more bytes than that
StepOfOne ==
  \E r \in Req :
    /\ \A q \in Req \ {r} : req'[q] = req[q]
    /\ IF OpensFile(r)
       THEN OtherFilesKept(r) /\ files'[req[r].outputPath].png = <<>>
       ELSE IF CompletesWrite(r)
       THEN /\ OtherFilesKept(r)
            /\ req'[r].response = SavedResponse(r)
            /\ IF Len(files[req[r].outputPath].png) <= Len(Payload(r).png)
               THEN files'[req[r].outputPath] = Payload(r)
               ELSE files'[req[r].outputPath] =
                      Torn(Payload(r), files[req[r].outputPath])
       ELSE files' = files

\* C11 as stated: once a download completes its write, the file at its
\* output path holds its payload, whatever other downloads do to that path.
C11_LastWriteWins ==
  [][\A r \in Req :
       CompletesWrite(r) => files'[req[r].outputPath] = Payload(r)]_vars

\* C11: requests interleave at the probes, the fetch and the two halves of
\* the write; each step belongs to one request and changes no other, each
\* finished request answers what its own arguments, path and I/O error
\* determine, and the requests meet only in the files. Writes to one path
\* are not serialized: a write overwrites from the start what the file
\* holds at that moment, so the file holds the payload of the write that
\* completed last only when it held no more bytes than that payload, and
\* otherwise that payload followed by the rest of an earlier one.
C11_Interleaving ==
  /\ [](\A r \in Req : req[r].pc = "done" => OwnOutcome(r))
  /\ []FilesFromDownloads
  /\ [][StepOfOne]_vars

C11_Witness ==
  \E r, q \in Req :
    /\ r # q
    /\ Saved(r)
    /\ Saved(q)
    /\ req[r].outputPathArg = <<>>
    /\ req[r].outputPath = req[q].outputPath
    /\ files[req[r].outputPath] = Torn(Payload(r), Payload(q))
    /\ files[req[r].outputPath] \notin {Payload(r), Payload(q)}

====
